---- MODULE Spec2Model ----
(***************************************************************************)
(* Registry-credential resolution of the Docker provider                   *)
(* (docker/provider.go): providerSetToRegistryAuth, newAuthConfigurations, *)
(* parseDockerConfig and authConfigs.                                      *)
(*                                                                         *)
(* Strings are sequences of byte codes, so that base64, the split on ':'   *)
(* and the trailing '/' are computed and not assumed.                      *)
(***************************************************************************)
EXTENDS Integers, Sequences, FiniteSets, TLC

\* ------------------------------------------------------------------------
\* Bounds of the model
\* ------------------------------------------------------------------------
MaxBlocks == 2
MaxTextLen == 2
MaxEntries == 2

\* ------------------------------------------------------------------------
\* Strings
\* ------------------------------------------------------------------------
EmptyStr == << >>

\* "r", "r/", "s": registry addresses; "u", "p": inline credentials
Str_r == <<114>>
Str_rSlash == <<114, 47>>
Str_s == <<115>>
Str_u == <<117>>
Str_p == <<112>>
\* "f", "~/f", "/h": a relative path, a home-relative path, the home directory
Str_f == <<102>>
Str_tildeF == <<126, 47, 102>>
Str_homeDir == <<47, 104>>
\* JSON member names of the credentials file
Str_auths == <<97, 117, 116, 104, 115>>
Str_auth == <<97, 117, 116, 104>>
Str_email == <<101, 109, 97, 105, 108>>
\* "e": an email value
Str_e == <<101>>

\* strings.HasPrefix(s, "~/")
HasTildePrefix(s) == Len(s) >= 2 /\ s[1] = 126 /\ s[2] = 47

\* All sequences over alphabet A of length 0..n
RECURSIVE SeqsUpTo(_, _)
SeqsUpTo(A, n) ==
    IF n = 0 THEN { << >> }
    ELSE LET S == SeqsUpTo(A, n - 1)
         IN  S \cup { Append(s, a) : s \in { t \in S : Len(t) = n - 1 }, a \in A }

\* Index of the first ':' of s, 0 when there is none
RECURSIVE FirstColonFrom(_, _)
FirstColonFrom(s, i) ==
    IF i > Len(s) THEN 0
    ELSE IF s[i] = 58 THEN i
    ELSE FirstColonFrom(s, i + 1)

\* strings.SplitN(s, ":", 2)
SplitN2(s) ==
    LET c == FirstColonFrom(s, 1)
    IN  IF c = 0 THEN << s >>
        ELSE << SubSeq(s, 1, c - 1), SubSeq(s, c + 1, Len(s)) >>

\* normalizeRegistryAddress: normalize(s) = s when s has no trailing '/',
\* normalize(s + "/") = normalize(s)
RECURSIVE normalizeRegistryAddress(_)
normalizeRegistryAddress(address) ==
    IF Len(address) > 0 /\ address[Len(address)] = 47
    THEN normalizeRegistryAddress(SubSeq(address, 1, Len(address) - 1))
    ELSE address

\* ------------------------------------------------------------------------
\* base64.StdEncoding
\* ------------------------------------------------------------------------
\* the character of a 6-bit value: A-Z a-z 0-9 + /
B64Char(v) ==
    IF v < 26 THEN 65 + v
    ELSE IF v < 52 THEN 97 + (v - 26)
    ELSE IF v < 62 THEN 48 + (v - 52)
    ELSE IF v = 62 THEN 43 ELSE 47

\* the 6-bit value of a character, -1 when it is not in the alphabet
B64Index(c) ==
    IF c >= 65 /\ c <= 90 THEN c - 65
    ELSE IF c >= 97 /\ c <= 122 THEN c - 97 + 26
    ELSE IF c >= 48 /\ c <= 57 THEN c - 48 + 52
    ELSE IF c = 43 THEN 62
    ELSE IF c = 47 THEN 63
    ELSE -1

\* base64.StdEncoding.EncodeToString
RECURSIVE B64Encode(_)
B64Encode(b) ==
    IF Len(b) = 0 THEN << >>
    ELSE IF Len(b) = 1 THEN
        << B64Char(b[1] \div 4), B64Char((b[1] % 4) * 16), 61, 61 >>
    ELSE IF Len(b) = 2 THEN
        << B64Char(b[1] \div 4),
           B64Char((b[1] % 4) * 16 + (b[2] \div 16)),
           B64Char((b[2] % 16) * 4), 61 >>
    ELSE
        << B64Char(b[1] \div 4),
           B64Char((b[1] % 4) * 16 + (b[2] \div 16)),
           B64Char((b[2] % 16) * 4 + (b[3] \div 64)),
           B64Char(b[3] % 64) >> \o B64Encode(SubSeq(b, 4, Len(b)))

\* the decoder skips '\r' and '\n'
RECURSIVE StripNewlines(_)
StripNewlines(s) ==
    IF Len(s) = 0 THEN << >>
    ELSE IF s[1] = 10 \/ s[1] = 13 THEN StripNewlines(Tail(s))
    ELSE << s[1] >> \o StripNewlines(Tail(s))

\* one quantum of four characters; last = the final quantum, the only one
\* that may carry '=' padding
B64Quantum(q, last) ==
    LET i1 == B64Index(q[1])
        i2 == B64Index(q[2])
        i3 == B64Index(q[3])
        i4 == B64Index(q[4])
    IN  IF i1 < 0 \/ i2 < 0 THEN [ok |-> FALSE, data |-> << >>]
        ELSE IF i3 >= 0 /\ i4 >= 0 THEN
            [ok |-> TRUE,
             data |-> << i1 * 4 + (i2 \div 16),
                         (i2 % 16) * 16 + (i3 \div 4),
                         (i3 % 4) * 64 + i4 >>]
        ELSE IF last /\ i3 >= 0 /\ q[4] = 61 THEN
            [ok |-> TRUE,
             data |-> << i1 * 4 + (i2 \div 16), (i2 % 16) * 16 + (i3 \div 4) >>]
        ELSE IF last /\ q[3] = 61 /\ q[4] = 61 THEN
            [ok |-> TRUE, data |-> << i1 * 4 + (i2 \div 16) >>]
        ELSE [ok |-> FALSE, data |-> << >>]

RECURSIVE B64DecodeQuanta(_)
B64DecodeQuanta(s) ==
    IF Len(s) = 0 THEN [ok |-> TRUE, data |-> << >>]
    ELSE IF Len(s) < 4 THEN [ok |-> FALSE, data |-> << >>]
    ELSE LET q == B64Quantum(SubSeq(s, 1, 4), Len(s) = 4)
             r == B64DecodeQuanta(SubSeq(s, 5, Len(s)))
         IN  IF q.ok /\ r.ok THEN [ok |-> TRUE, data |-> q.data \o r.data]
             ELSE [ok |-> FALSE, data |-> << >>]

\* base64.StdEncoding.DecodeString
B64Decode(s) == B64DecodeQuanta(StripNewlines(s))

\* ------------------------------------------------------------------------
\* JSON documents and encoding/json.Unmarshal
\* ------------------------------------------------------------------------
NoMembers == [k \in {} |-> 0]

\* content that is not JSON at all
JBad == [t |-> "bad", s |-> EmptyStr, f |-> NoMembers]
\* a JSON string
JStr(str) == [t |-> "str", s |-> str, f |-> NoMembers]
\* a JSON object, members: member name -> JSON value
JObj(members) == [t |-> "obj", s |-> EmptyStr, f |-> members]

\* the two members {auth, email} of one registry entry; an empty email is
\* left out of the document
EntryDoc(e) ==
    JObj([k \in (IF e.email = EmptyStr THEN {Str_auth} ELSE {Str_auth, Str_email}) |->
             IF k = Str_auth THEN JStr(e.auth) ELSE JStr(e.email)])

\* { "<registry-address>": {auth, email}, ... }
FlatDoc(m) == JObj([k \in DOMAIN m |-> EntryDoc(m[k])])

\* { "auths": { "<registry-address>": {auth, email}, ... } }
WrappedDoc(m) == JObj([k \in {Str_auths} |-> FlatDoc(m)])

\* the content of a credentials file described by (m, shape)
Render(file) ==
    CASE file.shape = "wrapped" -> WrappedDoc(file.m)
      [] file.shape = "flat" -> FlatDoc(file.m)
      [] file.shape = "scalar" -> JObj([k \in {Str_auths} |-> JStr(Str_u)])
      [] OTHER -> JBad

\* type dockerConfig struct { Auth string `json:"auth"`; Email string `json:"email"` }
UnmarshalDockerConfig(v) ==
    IF v.t # "obj" THEN [ok |-> FALSE, conf |-> [Auth |-> EmptyStr, Email |-> EmptyStr]]
    ELSE LET hasAuth == Str_auth \in DOMAIN v.f
             hasEmail == Str_email \in DOMAIN v.f
             okAuth == hasAuth => v.f[Str_auth].t = "str"
             okEmail == hasEmail => v.f[Str_email].t = "str"
         IN  [ok |-> okAuth /\ okEmail,
              conf |-> [Auth |-> IF hasAuth /\ okAuth THEN v.f[Str_auth].s ELSE EmptyStr,
                        Email |-> IF hasEmail /\ okEmail THEN v.f[Str_email].s ELSE EmptyStr]]

\* json.Unmarshal into map[string]dockerConfig
UnmarshalConfs(v) ==
    IF v.t # "obj" THEN [ok |-> FALSE, confs |-> NoMembers]
    ELSE [ok |-> \A k \in DOMAIN v.f : UnmarshalDockerConfig(v.f[k]).ok,
          confs |-> [k \in DOMAIN v.f |-> UnmarshalDockerConfig(v.f[k]).conf]]

\* json.Unmarshal into struct { Auths map[string]dockerConfig `json:"auths"` }
UnmarshalWrapper(v) ==
    IF v.t # "obj" THEN [ok |-> FALSE, Auths |-> NoMembers]
    ELSE IF Str_auths \in DOMAIN v.f
         THEN LET a == UnmarshalConfs(v.f[Str_auths])
              IN  [ok |-> a.ok, Auths |-> a.confs]
         ELSE [ok |-> TRUE, Auths |-> NoMembers]

\* ------------------------------------------------------------------------
\* parseDockerConfig, authConfigs, newAuthConfigurations
\* ------------------------------------------------------------------------
\* the wrapped parse is used when it succeeds without the len() > 0 test
parseDockerConfig_NoLenCheck(r) ==
    LET confsWrapper == UnmarshalWrapper(r)
        flat == UnmarshalConfs(r)
    IN  IF confsWrapper.ok
        THEN [err |-> "nil", confs |-> confsWrapper.Auths]
        ELSE IF ~flat.ok THEN [err |-> "json", confs |-> NoMembers]
        ELSE [err |-> "nil", confs |-> flat.confs]

parseDockerConfig(r) ==
    LET confsWrapper == UnmarshalWrapper(r)
        flat == UnmarshalConfs(r)
    IN  IF confsWrapper.ok /\ Cardinality(DOMAIN confsWrapper.Auths) > 0
        THEN [err |-> "nil", confs |-> confsWrapper.Auths]
        ELSE IF ~flat.ok THEN [err |-> "json", confs |-> NoMembers]
        ELSE [err |-> "nil", confs |-> flat.confs]

\* strings.Split(s, ":"): every ':' separates
RECURSIVE SplitAll(_)
SplitAll(s) ==
    LET c == FirstColonFrom(s, 1)
    IN  IF c = 0 THEN << s >>
        ELSE << SubSeq(s, 1, c - 1) >> \o SplitAll(SubSeq(s, c + 1, Len(s)))

\* the split is not capped at two parts
userpassOf_Uncapped(data) == SplitAll(data)

\* userpass := strings.SplitN(string(data), ":", 2)
userpassOf(data) == SplitN2(data)

\* an empty auth is decoded like any other
authConfigOf_NoSkip(reg, conf) ==
    LET data == B64Decode(conf.Auth)
        userpass == userpassOf(data.data)
    IN  IF ~data.ok THEN [skip |-> FALSE, err |-> "base64"]
        ELSE IF Len(userpass) # 2
        THEN [skip |-> FALSE, err |-> "ErrCannotParseDockercfg"]
        ELSE [skip |-> FALSE, err |-> "nil",
              cfg |-> [Email |-> conf.Email,
                       Username |-> userpass[1],
                       Password |-> userpass[2],
                       ServerAddress |-> reg,
                       Auth |-> conf.Auth]]

\* the body of the loop of authConfigs for one entry
authConfigOf(reg, conf) ==
    IF conf.Auth = EmptyStr THEN [skip |-> TRUE, err |-> "nil"]
    ELSE LET data == B64Decode(conf.Auth)
             userpass == userpassOf(data.data)
         IN  IF ~data.ok THEN [skip |-> FALSE, err |-> "base64"]
             ELSE IF Len(userpass) # 2
             THEN [skip |-> FALSE, err |-> "ErrCannotParseDockercfg"]
             ELSE [skip |-> FALSE, err |-> "nil",
                   cfg |-> [Email |-> conf.Email,
                            Username |-> userpass[1],
                            Password |-> userpass[2],
                            ServerAddress |-> reg,
                            Auth |-> conf.Auth]]

\* the orders in which a range over a map with key set S may visit it
Orders(S) ==
    { o \in [1..Cardinality(S) -> S] : \A a, b \in DOMAIN o : a # b => o[a] # o[b] }

\* c.Configs[reg] = cfg
MapSet(c, reg, cfg) == [k \in DOMAIN c \cup {reg} |-> IF k = reg THEN cfg ELSE c[k]]

\* authConfigs, its range visiting the entries in the given order
RECURSIVE authConfigsFrom(_, _, _, _)
authConfigsFrom(confs, order, n, c) ==
    IF n > Len(order) THEN [err |-> "nil", isNil |-> FALSE, Configs |-> c]
    ELSE LET e == authConfigOf(order[n], confs[order[n]])
         IN  IF e.skip THEN authConfigsFrom(confs, order, n + 1, c)
             ELSE IF e.err # "nil" THEN [err |-> e.err, isNil |-> TRUE, Configs |-> NoMembers]
             ELSE authConfigsFrom(confs, order, n + 1, MapSet(c, order[n], e.cfg))

authConfigs(confs, order) == authConfigsFrom(confs, order, 1, NoMembers)

\* newAuthConfigurations on content r; order is the order of the range of
\* authConfigs
newAuthConfigurations(r, order) ==
    LET parsed == parseDockerConfig(r)
    IN  IF parsed.err # "nil" THEN [err |-> parsed.err, isNil |-> TRUE, Configs |-> NoMembers]
        ELSE authConfigs(parsed.confs, order)

\* ------------------------------------------------------------------------
\* State
\* ------------------------------------------------------------------------
VARIABLES
    blocks,       \* authSet.List(): the registry_auth blocks in processing order
    fs,           \* the files that exist: path -> description of the content
    home,         \* what user.Current() returns
    pass,         \* which call of providerConfigure is running (1 or 2)
    pc,           \* "loop", "returned"; "idle" outside a resolution pass
    i,            \* index of the next block of the loop
    Configs,      \* authConfigs.Configs under construction
    ret,          \* the value returned by providerSetToRegistryAuth
    ret1,         \* the value returned by the first pass
    openHandles,  \* number of *os.File opened and not closed
    trace,        \* the OS-boundary calls of the pass: [blk, op, path]
    given,        \* parser runs: the description (m, shape) of the content read
    stage,        \* parser runs: "start", "parsed", "converted"; "idle" otherwise
    confsRet,     \* parser runs: what parseDockerConfig returned
    authsRet      \* parser runs: what newAuthConfigurations returned

resolverVars == << blocks, fs, home, pass, pc, i, Configs, ret, ret1, openHandles, trace >>
parserVars == << given, stage, confsRet, authsRet >>
vars == << blocks, fs, home, pass, pc, i, Configs, ret, ret1, openHandles, trace,
           given, stage, confsRet, authsRet >>

\* ------------------------------------------------------------------------
\* Values
\* ------------------------------------------------------------------------
NoErr == [kind |-> "nil", cause |-> "nil", address |-> EmptyStr, path |-> EmptyStr]
Err(kind, cause, address, path) ==
    [kind |-> kind, cause |-> cause, address |-> address, path |-> path]

NoRet == [isNil |-> TRUE, Configs |-> NoMembers, err |-> NoErr]
NoParse == [err |-> "nil", confs |-> NoMembers]
NoAuths == [err |-> "nil", isNil |-> TRUE, Configs |-> NoMembers]
NoFile == [m |-> NoMembers, shape |-> "bad"]

\* the packed auth string of username u and password p
Packed(u, p) == B64Encode(u \o <<58>> \o p)

\* one entry of a credentials file
Entry(auth, email) == [auth |-> auth, email |-> email]

\* ------------------------------------------------------------------------
\* providerSetToRegistryAuth
\* ------------------------------------------------------------------------
\* the address is stored as declared
InitAuthConfig_Raw(address) ==
    [ServerAddress |-> address, Username |-> EmptyStr, Password |-> EmptyStr,
     Email |-> EmptyStr, Auth |-> EmptyStr]

\* authConfig := types.AuthConfig{}; authConfig.ServerAddress = normalizeRegistryAddress(...)
InitAuthConfig(address) ==
    [ServerAddress |-> normalizeRegistryAddress(address), Username |-> EmptyStr,
     Password |-> EmptyStr, Email |-> EmptyStr, Auth |-> EmptyStr]

\* username, ok := auth["username"]; ok && username.(string) != ""
UsesInline(auth) == auth.username # EmptyStr

\* the config file is read whenever a path is given
UsesConfigFile_IgnoresUsername(auth) == auth.config_file # EmptyStr

\* else: configFile, ok := auth["config_file"]; ok && configFile.(string) != ""
UsesConfigFile(auth) == ~UsesInline(auth) /\ auth.config_file # EmptyStr

\* strings.Replace(filePath, "~", usr.HomeDir, 1) under HasPrefix(filePath, "~/")
ExpandPath(filePath, homeDir) ==
    IF HasTildePrefix(filePath) THEN homeDir \o Tail(filePath) ELSE filePath

\* the keys of the file are compared as written
MatchesRegistry_Raw(authConfig, registry) == authConfig.ServerAddress = registry

\* authConfig.ServerAddress == normalizeRegistryAddress(registry)
MatchesRegistry(authConfig, registry) ==
    authConfig.ServerAddress = normalizeRegistryAddress(registry)

\* the range over auths.Configs, visiting the entries in the given order
RECURSIVE LookupRegistry(_, _, _, _, _)
LookupRegistry(authConfig, auths, order, n, foundRegistry) ==
    IF n > Len(order) THEN [foundRegistry |-> foundRegistry, authConfig |-> authConfig]
    ELSE IF MatchesRegistry(authConfig, order[n])
    THEN LookupRegistry([authConfig EXCEPT !.Username = auths[order[n]].Username,
                                           !.Password = auths[order[n]].Password],
                        auths, order, n + 1, TRUE)
    ELSE LookupRegistry(authConfig, auths, order, n + 1, foundRegistry)

\* a record already stored keeps the fields the new one leaves empty
StoreConfig_Merge(configs, authConfig) ==
    LET k == authConfig.ServerAddress
    IN  IF k \in DOMAIN configs
        THEN MapSet(configs, k,
                    [authConfig EXCEPT
                       !.Username = IF authConfig.Username = EmptyStr
                                    THEN configs[k].Username ELSE authConfig.Username,
                       !.Password = IF authConfig.Password = EmptyStr
                                    THEN configs[k].Password ELSE authConfig.Password])
        ELSE MapSet(configs, k, authConfig)

\* authConfigs.Configs[authConfig.ServerAddress] = authConfig
StoreConfig(configs, authConfig) == MapSet(configs, authConfig.ServerAddress, authConfig)

\* the set built so far is handed back with the error
ReturnErr_Partial(configs, err) == [isNil |-> FALSE, Configs |-> configs, err |-> err]

\* return nil, err
ReturnErr(configs, err) == [isNil |-> TRUE, Configs |-> NoMembers, err |-> err]

\* the loop body leaves with an error
Fail(err, events) ==
    /\ ret' = ReturnErr(Configs, err)
    /\ pc' = "returned"
    /\ trace' = trace \o events
    /\ UNCHANGED << i, Configs >>

\* the loop body reaches line 220
Store(authConfig, events) ==
    /\ Configs' = StoreConfig(Configs, authConfig)
    /\ i' = i + 1
    /\ trace' = trace \o events
    /\ UNCHANGED << pc, ret >>

Event(op, path) == [blk |-> i, op |-> op, path |-> path]

\* loop body, username non-empty
ResolveInline ==
    /\ pc = "loop" /\ i <= Len(blocks)
    /\ UsesInline(blocks[i])
    /\ Store([InitAuthConfig(blocks[i].address) EXCEPT
                !.Username = blocks[i].username,
                !.Password = blocks[i].password], << >>)
    /\ UNCHANGED << openHandles, blocks, fs, home, pass, ret1 >>
    /\ UNCHANGED parserVars

\* loop body, username empty and config_file non-empty
ResolveFromFile ==
    /\ pc = "loop" /\ i <= Len(blocks)
    /\ UsesConfigFile(blocks[i])
    /\ LET auth == blocks[i]
           authConfig == InitAuthConfig(auth.address)
           tilde == HasTildePrefix(auth.config_file)
           homeEv == IF tilde THEN << Event("home", EmptyStr) >> ELSE << >>
       IN  IF tilde /\ ~home.ok
           THEN /\ Fail(Err("home", "nil", EmptyStr, EmptyStr), homeEv)
                /\ UNCHANGED openHandles
           ELSE LET filePath == ExpandPath(auth.config_file, home.dir)
                    openEv == homeEv \o << Event("open", filePath) >>
                IN  IF filePath \notin DOMAIN fs
                    THEN /\ Fail(Err("open", "nil", EmptyStr, filePath), openEv)
                         /\ UNCHANGED openHandles
                    ELSE LET r == Render(fs[filePath])
                             readEv == openEv \o << Event("read", filePath) >>
                         IN  /\ openHandles' = openHandles + 1
                             /\ \E order \in Orders(DOMAIN parseDockerConfig(r).confs) :
                                  LET auths == newAuthConfigurations(r, order)
                                  IN  IF auths.err # "nil"
                                      THEN Fail(Err("parse", auths.err, EmptyStr, EmptyStr), readEv)
                                      ELSE \E scan \in Orders(DOMAIN auths.Configs) :
                                             LET found == LookupRegistry(authConfig, auths.Configs,
                                                                         scan, 1, FALSE)
                                             IN  IF ~found.foundRegistry
                                                 THEN Fail(Err("notfound", "nil",
                                                               authConfig.ServerAddress, filePath),
                                                           readEv)
                                                 ELSE Store(found.authConfig, readEv)
    /\ UNCHANGED << blocks, fs, home, pass, ret1 >>
    /\ UNCHANGED parserVars

\* loop body, neither username nor config_file
ResolveEmpty ==
    /\ pc = "loop" /\ i <= Len(blocks)
    /\ ~UsesInline(blocks[i]) /\ ~UsesConfigFile(blocks[i])
    /\ Store(InitAuthConfig(blocks[i].address), << >>)
    /\ UNCHANGED << openHandles, blocks, fs, home, pass, ret1 >>
    /\ UNCHANGED parserVars

\* return &authConfigs, nil
Return ==
    /\ pc = "loop" /\ i > Len(blocks)
    /\ ret' = [isNil |-> FALSE, Configs |-> Configs, err |-> NoErr]
    /\ pc' = "returned"
    /\ UNCHANGED << i, Configs, trace, openHandles, blocks, fs, home, pass, ret1 >>
    /\ UNCHANGED parserVars

\* providerConfigure runs again on the same configuration and the same files
Reconfigure ==
    /\ pc = "returned" /\ pass = 1
    /\ pass' = 2
    /\ ret1' = ret
    /\ ret' = NoRet
    /\ pc' = "loop"
    /\ i' = 1
    /\ Configs' = NoMembers
    /\ trace' = << >>
    /\ UNCHANGED << openHandles, blocks, fs, home >>
    /\ UNCHANGED parserVars

\* ------------------------------------------------------------------------
\* Inputs of the resolution passes
\* ------------------------------------------------------------------------
Addresses == { Str_r, Str_rSlash }
Credentials == { << EmptyStr, EmptyStr >>, << Str_u, Str_p >> }
ConfigFiles == { EmptyStr, Str_f, Str_tildeF }

BlockSet ==
    { [address |-> a, username |-> c[1], password |-> c[2], config_file |-> f] :
        a \in Addresses, c \in Credentials, f \in ConfigFiles }

BlockSeqs == UNION { [1..n -> BlockSet] : n \in 0..MaxBlocks }

\* two keys of one file that normalize to the same address
CollidingFile ==
    [m |-> (Str_r :> Entry(Packed(Str_u, Str_p), EmptyStr)) @@
           (Str_rSlash :> Entry(Packed(Str_p, Str_u), Str_e)),
     shape |-> "wrapped"]

CredFiles ==
    { [m |-> (Str_r :> Entry(Packed(Str_u, Str_p), Str_e)), shape |-> "wrapped"],
      [m |-> (Str_rSlash :> Entry(Packed(Str_p, <<58, 117>>), EmptyStr)) @@
             (Str_s :> Entry(Packed(Str_u, Str_p), EmptyStr)),
       shape |-> "flat"],
      CollidingFile,
      [m |-> (Str_r :> Entry(EmptyStr, Str_e)) @@
             (Str_s :> Entry(Packed(Str_u, Str_p), EmptyStr)),
       shape |-> "wrapped"],
      [m |-> (Str_r :> Entry(Packed(Str_u, Str_p), EmptyStr)) @@
             (Str_s :> Entry(B64Encode(Str_u), EmptyStr)),
       shape |-> "flat"],
      [m |-> (Str_r :> Entry(<<33>>, EmptyStr)) @@
             (Str_s :> Entry(B64Encode(Str_u), EmptyStr)),
       shape |-> "wrapped"],
      NoFile }

\* "f" is any of the files or missing; "/h/f" exists
FileSystems ==
    { (ExpandPath(Str_tildeF, Str_homeDir) :> CollidingFile) @@ (Str_f :> c) : c \in CredFiles }
    \cup { (ExpandPath(Str_tildeF, Str_homeDir) :> CollidingFile) }

Homes == { [ok |-> TRUE, dir |-> Str_homeDir], [ok |-> FALSE, dir |-> EmptyStr] }

Init ==
    /\ blocks \in BlockSeqs
    /\ fs \in FileSystems
    /\ home \in Homes
    /\ pass = 1
    /\ pc = "loop"
    /\ i = 1
    /\ Configs = NoMembers
    /\ ret = NoRet
    /\ ret1 = NoRet
    /\ openHandles = 0
    /\ trace = << >>
    /\ given = NoFile
    /\ stage = "idle"
    /\ confsRet = NoParse
    /\ authsRet = NoAuths

Next ==
    \/ ResolveInline
    \/ ResolveFromFile
    \/ ResolveEmpty
    \/ Return
    \/ Reconfigure

Spec == Init /\ [][Next]_vars

\* ------------------------------------------------------------------------
\* Parser runs: newAuthConfigurations on one content
\* ------------------------------------------------------------------------
\* the decoded texts: over 'u' and ':', up to MaxTextLen bytes
Texts == SeqsUpTo({117, 58}, MaxTextLen)

\* auth values: every packed text (the empty one included), "!" and "dX"
AuthStrings == { B64Encode(t) : t \in Texts } \cup { <<33>>, <<100, 88>> }

ParserEntries == { Entry(a, e) : a \in AuthStrings, e \in { EmptyStr, Str_e } }

\* a registry key may be spelled "auths"
ParserKeys == { Str_r, Str_rSlash, Str_auths }

ParserMappings ==
    UNION { [S -> ParserEntries] : S \in { T \in SUBSET ParserKeys : Cardinality(T) <= MaxEntries } }

ParserInputs ==
    { [m |-> m, shape |-> sh] : m \in ParserMappings, sh \in { "wrapped", "flat" } }
    \cup { [m |-> NoMembers, shape |-> sh] : sh \in { "bad", "scalar" } }

\* confs, err := parseDockerConfig(r)
CallParseDockerConfig ==
    /\ stage = "start"
    /\ confsRet' = parseDockerConfig(Render(given))
    /\ stage' = "parsed"
    /\ UNCHANGED << given, authsRet >>
    /\ UNCHANGED resolverVars

\* if err != nil { return nil, err }; auth, err = authConfigs(confs)
CallAuthConfigs ==
    /\ stage = "parsed"
    /\ \E order \in Orders(DOMAIN confsRet.confs) :
         authsRet' = newAuthConfigurations(Render(given), order)
    /\ stage' = "converted"
    /\ UNCHANGED << given, confsRet >>
    /\ UNCHANGED resolverVars

InitParser ==
    /\ given \in ParserInputs
    /\ stage = "start"
    /\ confsRet = NoParse
    /\ authsRet = NoAuths
    /\ blocks = << >>
    /\ fs = NoMembers
    /\ home = [ok |-> FALSE, dir |-> EmptyStr]
    /\ pass = 1
    /\ pc = "idle"
    /\ i = 1
    /\ Configs = NoMembers
    /\ ret = NoRet
    /\ ret1 = NoRet
    /\ openHandles = 0
    /\ trace = << >>

NextParser ==
    \/ CallParseDockerConfig
    \/ CallAuthConfigs

SpecParser == InitParser /\ [][NextParser]_vars

\* ------------------------------------------------------------------------
\* Vocabulary of the properties
\* ------------------------------------------------------------------------
HasTrailingSlash(k) == Len(k) > 0 /\ k[Len(k)] = 47

HasColon(t) == \E n \in 1..Len(t) : t[n] = 58

\* <<username, password, packed auth>> for the credentials of the files
CredPairs ==
    { << u, p, Packed(u, p) >> : u \in SeqsUpTo({117, 112}, 1), p \in SeqsUpTo({117, 112, 58}, 2) }

\* <<username, password, packed auth>> for the texts of the parser runs
ParserPairs ==
    { << q[1], q[2], Packed(q[1], q[2]) >> :
        q \in { w \in SeqsUpTo({117}, MaxTextLen) \X Texts : Len(w[1]) + 1 + Len(w[2]) <= MaxTextLen } }

\* packed auth strings of the parser runs whose text is non-empty and has no ':'
NoColonAuths == { B64Encode(t) : t \in { x \in Texts : Len(x) > 0 /\ ~HasColon(x) } }

\* the path a file-based block opens
PathOf(b) ==
    IF b.config_file = Str_tildeF THEN <<47, 104, 47, 102>> ELSE b.config_file

FileBased(b) == b.username = EmptyStr /\ b.config_file # EmptyStr

NeedsHome(b) == b.config_file = Str_tildeF

\* the file opens: the home directory is known when needed and the file exists
Opens(b) == (NeedsHome(b) => home.ok) /\ PathOf(b) \in DOMAIN fs

\* the content is of one of the two shapes and every auth is empty or packed
FileParses(file) ==
    /\ file.shape \in { "wrapped", "flat" }
    /\ \A k \in DOMAIN file.m :
         file.m[k].auth = EmptyStr \/ \E c \in CredPairs : c[3] = file.m[k].auth

\* the entries of the file that survive parsing and whose key normalizes to addr
MatchingKeys(file, addr) ==
    { k \in DOMAIN file.m :
        file.m[k].auth # EmptyStr /\ normalizeRegistryAddress(k) = addr }

\* the block cannot be resolved
Offending(b) ==
    /\ FileBased(b)
    /\ \/ ~Opens(b)
       \/ ~FileParses(fs[PathOf(b)])
       \/ MatchingKeys(fs[PathOf(b)], normalizeRegistryAddress(b.address)) = {}

\* the index of the block that just went through the loop body, 0 if none
LastBlk == IF pc = "returned" /\ ret.err # NoErr THEN i ELSE i - 1

Record(addr, u, p) ==
    [ServerAddress |-> addr, Username |-> u, Password |-> p,
     Email |-> EmptyStr, Auth |-> EmptyStr]

\* the records block b alone may resolve to
ExpectedRecords(b) ==
    LET addr == normalizeRegistryAddress(b.address)
    IN  IF b.username # EmptyStr THEN { Record(addr, b.username, b.password) }
        ELSE IF b.config_file = EmptyStr THEN { Record(addr, EmptyStr, EmptyStr) }
        ELSE IF ~Opens(b) THEN {}
        ELSE { Record(addr, c[1], c[2]) :
                 c \in { d \in CredPairs :
                           \E k \in MatchingKeys(fs[PathOf(b)], addr) :
                              fs[PathOf(b)].m[k].auth = d[3] } }

\* the last block whose address normalizes to k
LastIndexOf(k) ==
    CHOOSE j \in 1..Len(blocks) :
      /\ normalizeRegistryAddress(blocks[j].address) = k
      /\ \A l \in (j + 1)..Len(blocks) : normalizeRegistryAddress(blocks[l].address) # k

\* ------------------------------------------------------------------------
\* Properties
\* ------------------------------------------------------------------------

\* C1: when providerSetToRegistryAuth succeeds, the record stored under an
\* address is exactly the record resolved from the last block with that
\* normalized address; no field comes from an earlier block.
C1_LastBlockWins ==
    (pc = "returned" /\ ret.err = NoErr) =>
        \A k \in DOMAIN ret.Configs :
            /\ \E j \in 1..Len(blocks) : normalizeRegistryAddress(blocks[j].address) = k
            /\ ret.Configs[k] \in ExpectedRecords(blocks[LastIndexOf(k)])

C1_Witness ==
    /\ pc = "returned" /\ ret.err = NoErr /\ Len(blocks) = 2
    /\ normalizeRegistryAddress(blocks[1].address) = normalizeRegistryAddress(blocks[2].address)
    /\ blocks[1].username = Str_u /\ blocks[1].password = Str_p
    /\ blocks[2].username = EmptyStr /\ blocks[2].config_file = EmptyStr
    /\ ret.Configs[Str_r] = Record(Str_r, EmptyStr, EmptyStr)

\* C2: a block with a non-empty username is resolved from its inline
\* username and password and causes no home lookup, open or read, whatever
\* its config_file; only blocks with an empty username and a non-empty
\* config_file touch the file system.
C2_InlineNoFileAccess ==
    (pc \in { "loop", "returned" }) =>
        /\ \A n \in 1..Len(trace) : FileBased(blocks[trace[n].blk])
        /\ (LastBlk >= 1 /\ blocks[LastBlk].username # EmptyStr) =>
              /\ pc = "returned" => ret.err = NoErr
              /\ LET k == normalizeRegistryAddress(blocks[LastBlk].address)
                 IN  /\ k \in DOMAIN Configs
                     /\ Configs[k].Username = blocks[LastBlk].username
                     /\ Configs[k].Password = blocks[LastBlk].password

C2_Witness ==
    /\ pc = "loop" /\ i = 2
    /\ blocks[1].username = Str_u /\ blocks[1].config_file = Str_f
    /\ Str_f \notin DOMAIN fs
    /\ trace = << >>
    /\ Configs[Str_r].Username = Str_u

\* C3: for a file-based block whose file opens and parses, the pass fails
\* with the registry-not-found error, carrying the normalized address and the
\* expanded path, if and only if no parsed entry (an entry with an empty auth
\* is not one) has a key that normalizes to the block's normalized address.
C3_NotFoundIff ==
    (pc \in { "loop", "returned" } /\ LastBlk >= 1 /\ LastBlk <= Len(blocks)) =>
        LET b == blocks[LastBlk]
            addr == normalizeRegistryAddress(b.address)
        IN  (FileBased(b) /\ Opens(b) /\ FileParses(fs[PathOf(b)])) =>
                /\ (pc = "returned" /\ ret.err.kind = "notfound")
                      <=> MatchingKeys(fs[PathOf(b)], addr) = {}
                /\ (pc = "returned" /\ ret.err.kind = "notfound")
                      => ret.err = Err("notfound", "nil", addr, PathOf(b))
                /\ (pc = "returned" /\ ret.err # NoErr) => ret.err.kind = "notfound"

C3_Witness ==
    /\ pc = "returned" /\ i = 1
    /\ ret.err = Err("notfound", "nil", Str_r, Str_f)
    /\ blocks[1].address = Str_rSlash
    /\ Str_r \in DOMAIN fs[Str_f].m
    /\ fs[Str_f].m[Str_r].auth = EmptyStr

\* the error of the pass is the one block b raises
ErrorOf(b, err) ==
    IF NeedsHome(b) /\ ~home.ok THEN err = Err("home", "nil", EmptyStr, EmptyStr)
    ELSE IF PathOf(b) \notin DOMAIN fs THEN err = Err("open", "nil", EmptyStr, PathOf(b))
    ELSE IF ~FileParses(fs[PathOf(b)]) THEN err.kind = "parse" /\ err.cause # "nil"
    ELSE err = Err("notfound", "nil", normalizeRegistryAddress(b.address), PathOf(b))

\* C4: the pass fails exactly when some block cannot be resolved; it then
\* returns nil with the error of the first such block and touches no file of a
\* later block; otherwise it returns a record for every block's normalized
\* address.
C4_AllOrNothing ==
    (pc = "returned") =>
        LET bad == { j \in 1..Len(blocks) : Offending(blocks[j]) }
        IN  IF bad # {}
            THEN LET first == CHOOSE j \in bad : \A l \in bad : j <= l
                 IN  /\ ret.isNil /\ ret.Configs = NoMembers
                     /\ ret.err # NoErr
                     /\ i = first
                     /\ ErrorOf(blocks[first], ret.err)
                     /\ \A n \in 1..Len(trace) : trace[n].blk <= first
            ELSE /\ ~ret.isNil /\ ret.err = NoErr
                 /\ DOMAIN ret.Configs =
                      { normalizeRegistryAddress(blocks[j].address) : j \in 1..Len(blocks) }

C4_Witness ==
    /\ pc = "returned" /\ ret.isNil /\ ret.err.kind = "parse"
    /\ Len(blocks) = 2 /\ i = 1
    /\ FileBased(blocks[2]) /\ Offending(blocks[2])
    /\ PathOf(blocks[2]) # PathOf(blocks[1])
    /\ \A n \in 1..Len(trace) : trace[n].blk = 1

\* C5: every credentials file opened for a block is closed before the next
\* block is processed and before providerSetToRegistryAuth returns: never
\* more than one handle is open, and none between blocks or after the pass.
C5_FilesClosed ==
    /\ openHandles <= 1
    /\ (pc = "loop") => openHandles = 0
    /\ (pc = "returned") => openHandles = 0

\* C9: after any prefix of the blocks and in the returned set, every key is
\* the normalized address of a block already processed, equals the
\* ServerAddress of its record, and is no address with a trailing '/'.
C9_KeysNormalized ==
    (pc \in { "loop", "returned" }) =>
        /\ \A k \in DOMAIN Configs :
             /\ Configs[k].ServerAddress = k
             /\ ~HasTrailingSlash(k)
             /\ \E j \in 1..(i - 1) : normalizeRegistryAddress(blocks[j].address) = k
        /\ \A k \in DOMAIN ret.Configs :
             /\ ret.Configs[k].ServerAddress = k
             /\ ~HasTrailingSlash(k)
             /\ \E j \in 1..Len(blocks) : normalizeRegistryAddress(blocks[j].address) = k

C9_Witness ==
    /\ pc = "loop" /\ i = 2
    /\ blocks[1].address = Str_rSlash /\ FileBased(blocks[1])
    /\ PathOf(blocks[1]) = Str_f
    /\ DOMAIN fs[Str_f].m = { Str_rSlash, Str_s }
    /\ DOMAIN Configs = { Str_r }
    /\ Configs[Str_r].Username = Str_p

\* C10: two passes over the same blocks and the same files that both
\* succeed return the same set, whatever the order in which the parsed
\* mapping is scanned.
C10_SameResult ==
    (pass = 2 /\ pc = "returned" /\ ret.err = NoErr /\ ret1.err = NoErr) =>
        ret.Configs = ret1.Configs

\* the configs a content described by m holds
ConfsOf(m) == [k \in DOMAIN m |-> [Auth |-> m[k].auth, Email |-> m[k].email]]

OtherShape(file) ==
    [m |-> file.m, shape |-> IF file.shape = "wrapped" THEN "flat" ELSE "wrapped"]

\* what newAuthConfigurations may return on content r
AuthOutcomes(r) ==
    LET parsed == parseDockerConfig(r)
    IN  IF parsed.err # "nil"
        THEN { [err |-> parsed.err, isNil |-> TRUE, Configs |-> NoMembers] }
        ELSE { authConfigs(parsed.confs, o) : o \in Orders(DOMAIN parsed.confs) }

\* C6: for a non-empty mapping M, the wrapped document {"auths": M} and the
\* flat document M parse to the same configs, those of M, and give the same
\* result through newAuthConfigurations; a wrapped document whose mapping is
\* empty is parsed as the flat shape.
C6_WrappedFlatSame ==
    (stage \in { "parsed", "converted" } /\ given.shape \in { "wrapped", "flat" }) =>
        /\ (DOMAIN given.m # {}) =>
              /\ confsRet = [err |-> "nil", confs |-> ConfsOf(given.m)]
              /\ confsRet = parseDockerConfig(Render(OtherShape(given)))
              /\ (stage = "converted") =>
                    authsRet \in AuthOutcomes(Render(OtherShape(given)))
        /\ (DOMAIN given.m = {} /\ given.shape = "wrapped") =>
              confsRet = [err |-> "nil",
                          confs |-> [k \in { Str_auths } |->
                                       [Auth |-> EmptyStr, Email |-> EmptyStr]]]

C6_Witness ==
    /\ stage = "converted" /\ given.shape = "flat"
    /\ DOMAIN given.m = { Str_auths, Str_r }
    /\ authsRet.err = "nil"
    /\ DOMAIN authsRet.Configs = { Str_auths, Str_r }
    /\ authsRet.Configs[Str_auths].Username = Str_u

\* every auth of confs is empty or a packed text with a ':'
AllWellFormed(confs) ==
    \A k \in DOMAIN confs :
        confs[k].Auth = EmptyStr \/ \E c \in ParserPairs : c[3] = confs[k].Auth

\* C7: authConfigs skips an entry with an empty auth: the entry raises no
\* error and changes no other entry, and the returned keys are exactly the
\* input keys with a non-empty auth, each the ServerAddress of its record.
C7_EmptyAuthSkipped ==
    (stage = "converted" /\ confsRet.err = "nil") =>
        /\ authsRet.err = "nil" <=> AllWellFormed(confsRet.confs)
        /\ (authsRet.err = "nil") =>
              /\ ~authsRet.isNil
              /\ DOMAIN authsRet.Configs =
                   { k \in DOMAIN confsRet.confs : confsRet.confs[k].Auth # EmptyStr }
              /\ \A k \in DOMAIN authsRet.Configs :
                   /\ authsRet.Configs[k].ServerAddress = k
                   /\ authsRet.Configs[k].Auth = confsRet.confs[k].Auth
                   /\ authsRet.Configs[k].Email = confsRet.confs[k].Email

C7_Witness ==
    /\ stage = "converted" /\ authsRet.err = "nil"
    /\ DOMAIN confsRet.confs = { Str_r, Str_rSlash }
    /\ confsRet.confs[Str_r].Auth = EmptyStr
    /\ DOMAIN authsRet.Configs = { Str_rSlash }
    /\ authsRet.Configs[Str_rSlash].ServerAddress = Str_rSlash

\* C8: a packed auth base64(u + ":" + p), u without ':', decodes to exactly
\* username u and password p, the password keeping its own ':'; a non-empty
\* decoded text without ':' fails with ErrCannotParseDockercfg and authConfigs
\* returns no mapping.
C8_SplitOnFirstColon ==
    (stage = "converted" /\ confsRet.err = "nil") =>
        /\ AllWellFormed(confsRet.confs) =>
              /\ authsRet.err = "nil"
              /\ \A k \in DOMAIN confsRet.confs : \A c \in ParserPairs :
                   (confsRet.confs[k].Auth = c[3]) =>
                       /\ k \in DOMAIN authsRet.Configs
                       /\ authsRet.Configs[k].Username = c[1]
                       /\ authsRet.Configs[k].Password = c[2]
        /\ \A k \in DOMAIN confsRet.confs :
              (confsRet.confs[k].Auth \in NoColonAuths) =>
                  /\ authConfigOf(k, confsRet.confs[k]).err = "ErrCannotParseDockercfg"
                  /\ authsRet.isNil /\ authsRet.Configs = NoMembers
                  /\ authsRet.err \in { "ErrCannotParseDockercfg", "base64" }
                  /\ (authsRet.err = "base64") =>
                        \E l \in DOMAIN confsRet.confs : ~B64Decode(confsRet.confs[l].Auth).ok

C8_Witness ==
    /\ stage = "converted" /\ authsRet.err = "nil"
    /\ \E k \in DOMAIN authsRet.Configs :
         /\ authsRet.Configs[k].Username = EmptyStr
         /\ authsRet.Configs[k].Password = <<58>>
    /\ \E k \in DOMAIN authsRet.Configs :
         /\ authsRet.Configs[k].Username = Str_u
         /\ authsRet.Configs[k].Password = EmptyStr

====
